---- MODULE Spec2Model ----
(***************************************************************************)
(* Genetic-algorithm TSP solver of "GA doganer kartum.py".                 *)
(*                                                                         *)
(* A city is the tuple <<id, x, y>> (Python (city_id, x, y)); a tour is a  *)
(* sequence of cities; a population is a sequence of tours.  Python's      *)
(* 0-based positions are 1-based here.  All coordinates used below lie on  *)
(* the corners of a 3 x 4 rectangle, so that every squared distance is a   *)
(* perfect square: math.sqrt is then exact and so is every float sum the   *)
(* code forms, and the integer arithmetic below computes what the code     *)
(* computes.                                                               *)
(***************************************************************************)
EXTENDS Integers, Sequences, FiniteSets, TLC

VARIABLES
    cities,                  \* argument of run_genetic_algorithm
    initial_population_size, \* argument of run_genetic_algorithm
    epochs,                  \* argument of run_genetic_algorithm
    mutation_probability,    \* argument, in units of 1/ProbScale
    pc,                      \* position in run_genetic_algorithm
    population,              \* local `population`
    new_population,          \* local `new_population` of create_new_epoch
    epoch,                   \* number of completed generations
    best_solution,           \* <<>> for None, <<tour>> for a tour
    best_score,              \* Inf or a route length
    best_scores_per_epoch,
    avg_scores_per_epoch,    \* each entry <<sum(scores), len(scores)>>
    worst_scores_per_epoch,
    opened,                  \* random draws so far that did not take their first outcome
    population_ids,          \* the list objects the entries of `population` refer
                             \* to: <<generation, position>> names the list built
                             \* at that position of that generation
    new_population_ids,      \* the same for the entries of `new_population`
    best_solution_id,        \* the list object best_solution refers to, <<>> for None
    call,                    \* the call in progress: the function's name and arguments
    ret,                     \* its outcome: pending, a returned value or a raised
                             \* exception, with the random values drawn on the way
    profile,                 \* RecipeRecommenderApp.profile
    feedback,                \* RecipeRecommenderApp.feedback
    saved                    \* user_feedback.json and user_profile.json on disk

vars == <<cities, initial_population_size, epochs, mutation_probability, pc,
          population, new_population, epoch, best_solution, best_solution_id, best_score,
          best_scores_per_epoch, avg_scores_per_epoch, worst_scores_per_epoch,
          opened, call, ret, profile, feedback, saved,
          population_ids, new_population_ids>>

---------------------------------------------------------------------------
(* Bounds of the model *)

\* longest input city list
MaxCities == 4
\* largest value of the `epochs` argument
MaxEpochs == 2
\* random.random() and mutation_probability are multiples of 1/ProbScale
ProbScale == 2
\* bits of the significand of a float, where the rounding of floats is
\* modelled (53 in the program)
MantissaBits == 6
\* random draws of a run whose outcome is left open; every other draw of the
\* run takes the first outcome of its kind (see FirstShuffle, FirstSample,
\* FirstRandom, FirstPair)
MaxOpenDraws == 1

---------------------------------------------------------------------------
(* Values *)

\* float('inf'): greater than every route length
Inf == -1

\* a < b on floats that may be float('inf')
Less(a, b) == IF a = Inf THEN FALSE ELSE IF b = Inf THEN TRUE ELSE a < b

\* Python None for best_solution, and a tour held by it
None == <<>>
Some(tour) == <<tour>>

\* outcomes of a call: not finished, a returned value (with the random values
\* drawn on the way), an exception that left the function
Pending == [status |-> "pending", value |-> <<>>, draw |-> <<>>]
Returned(value, draw) == [status |-> "returned", value |-> value, draw |-> draw]
Raised(exception, draw) == [status |-> "raised", value |-> exception, draw |-> draw]

\* default of the tournament_size parameter
DefaultTournamentSize == 7

Range(s) == {s[i] : i \in 1..Len(s)}

\* floor of the square root; exact on perfect squares, as math.sqrt is
Isqrt(n) == CHOOSE r \in 0..n : r * r <= n /\ (r + 1) * (r + 1) > n

\* the i-th city record of the input data: corners of a 3 x 4 rectangle, taken
\* round the rectangle; the fifth record lies on the first one's coordinates
CoordX(i) == IF (i - 1) % 4 \in {1, 2} THEN 3 ELSE 0
CoordY(i) == IF (i - 1) % 4 \in {2, 3} THEN 4 ELSE 0
City(i) == <<i, CoordX(i), CoordY(i)>>

\* input city lists: n distinct records in the order of their ids; the same
\* with the last two records exchanged; the same with the last record
\* replaced by a second copy of the one before it
DistinctCities(n) == [i \in 1..n |-> City(i)]
ExchangedCities(n) ==
    [i \in 1..n |-> IF i = n THEN City(n - 1) ELSE IF i = n - 1 THEN City(n) ELSE City(i)]
RepeatedCities(n) == [i \in 1..n |-> IF i = n THEN City(n - 1) ELSE City(i)]
CityLists ==
    {DistinctCities(n) : n \in 0..MaxCities}
        \cup {ExchangedCities(n) : n \in 2..MaxCities}
        \cup {RepeatedCities(n) : n \in 2..MaxCities}

\* population sizes: none, one, one less than a tournament, a tournament
PopulationSizes == {0, 1, DefaultTournamentSize - 1, DefaultTournamentSize}

---------------------------------------------------------------------------
(* euclidean_distance, calculate_route_length *)

euclidean_distance(city1, city2) ==
    Isqrt((city2[2] - city1[2]) * (city2[2] - city1[2])
          + (city2[3] - city1[3]) * (city2[3] - city1[3]))

RECURSIVE RouteLoop(_, _)
\* the for loop of calculate_route_length over i = 0 .. len(route) - 2
RouteLoop(route, i) ==
    IF i >= Len(route) THEN 0
    ELSE euclidean_distance(route[i], route[i + 1]) + RouteLoop(route, i + 1)

\* route[-1] raises IndexError on an empty route
RouteLengthRaises(route) == Len(route) = 0

calculate_route_length(route) ==
    RouteLoop(route, 1) + euclidean_distance(route[Len(route)], route[1])

---------------------------------------------------------------------------
(* Floats that round.  Where a distance is not an integer, math.sqrt and   *)
(* each float addition round to the nearest float, ties to even.  A float  *)
(* x >= 0 is held as the integer x * Unit, and a float has MantissaBits    *)
(* significant bits.  Coordinates, their differences and the sums of their *)
(* squares are integers below 2^MantissaBits and so are exact.             *)

\* 1.0
Unit == 2 ^ MantissaBits

RECURSIVE BitLength(_)
\* number of bits of n
BitLength(n) == IF n = 0 THEN 0 ELSE 1 + BitLength(n \div 2)

\* the distance between neighbouring floats at n (the unit in the last place)
Ulp(n) == IF BitLength(n) <= MantissaBits THEN 1 ELSE 2 ^ (BitLength(n) - MantissaBits)

\* the float nearest to n, ties to even
RoundToFloat(n) ==
    LET q == Ulp(n)
        lo == (n \div q) * q
    IN  IF 2 * (n - lo) < q THEN lo
        ELSE IF 2 * (n - lo) > q THEN lo + q
        ELSE IF (lo \div q) % 2 = 0 THEN lo ELSE lo + q

\* a + b on floats
FloatAdd(a, b) == RoundToFloat(a + b)

\* math.sqrt(n) for an integer n: the float nearest to the square root
FloatSqrt(n) ==
    LET t == n * Unit * Unit
        r == Isqrt(t)
        q == Ulp(r)
        lo == (r \div q) * q
        mid == lo + q \div 2
    IN  IF r * r = t THEN RoundToFloat(r)
        ELSE IF t < mid * mid THEN lo ELSE lo + q

\* euclidean_distance as a float
euclidean_distance_float(city1, city2) ==
    FloatSqrt((city2[2] - city1[2]) * (city2[2] - city1[2])
              + (city2[3] - city1[3]) * (city2[3] - city1[3]))

RECURSIVE RouteLoopFloat(_, _, _)
\* the for loop of calculate_route_length from i on, with `length` so far
RouteLoopFloat(route, i, length) ==
    IF i >= Len(route) THEN length
    ELSE RouteLoopFloat(route, i + 1,
                        FloatAdd(length, euclidean_distance_float(route[i], route[i + 1])))

\* calculate_route_length without line 64
route_length_open(route) == RouteLoopFloat(route, 1, 0)

\* calculate_route_length as a float
calculate_route_length_float(route) ==
    FloatAdd(RouteLoopFloat(route, 1, 0),
             euclidean_distance_float(route[Len(route)], route[1]))

---------------------------------------------------------------------------
(* greedy_algorithm *)

\* list.pop(start) raises IndexError outside -len .. len - 1
PopRaises(n, start) == start >= n \/ start < -n

\* the position list.pop(start) and list[start] name
PopPosition(n, start) == IF start < 0 THEN n + start + 1 ELSE start + 1

\* the list without its entry at position p
RemoveAt(s, p) == SubSeq(s, 1, p - 1) \o SubSeq(s, p + 1, Len(s))

\* list.remove(v): the list without the first entry equal to v
RemoveFirst(s, v) == RemoveAt(s, CHOOSE i \in 1..Len(s) : s[i] = v /\ \A j \in 1..(i - 1) : s[j] # v)

RECURSIVE NearestLoopLast(_, _, _, _, _)
\* `if distance <= min_distance`
NearestLoopLast(unvisited, current_city, i, nearest, min_distance) ==
    IF i > Len(unvisited) THEN nearest
    ELSE LET distance == euclidean_distance_float(current_city, unvisited[i])
         IN  IF ~Less(min_distance, distance)
             THEN NearestLoopLast(unvisited, current_city, i + 1, i, distance)
             ELSE NearestLoopLast(unvisited, current_city, i + 1, nearest, min_distance)

RECURSIVE NearestLoop(_, _, _, _, _)
\* lines 42-46: the for loop over unvisited from position i on, where
\* nearest_city is unvisited[nearest] (None for 0) at min_distance
NearestLoop(unvisited, current_city, i, nearest, min_distance) ==
    IF i > Len(unvisited) THEN nearest
    ELSE LET distance == euclidean_distance_float(current_city, unvisited[i])
         IN  IF Less(distance, min_distance)
             THEN NearestLoop(unvisited, current_city, i + 1, i, distance)
             ELSE NearestLoop(unvisited, current_city, i + 1, nearest, min_distance)

RECURSIVE GreedyLoop(_, _, _)
\* lines 39-49: the while loop
GreedyLoop(unvisited, current_city, route) ==
    IF unvisited = <<>> THEN route
    ELSE LET nearest_city == unvisited[NearestLoop(unvisited, current_city, 1, 0, Inf)]
         IN  GreedyLoop(RemoveFirst(unvisited, nearest_city), nearest_city,
                        Append(route, nearest_city))

\* greedy_algorithm(cities, start) where pop does not raise
greedy_algorithm(cs, start) ==
    LET p == PopPosition(Len(cs), start)
    IN  GreedyLoop(RemoveAt(cs, p), cs[p], <<cs[p]>>)

---------------------------------------------------------------------------
(* The random source.  Each kind of draw has a first outcome; a run leaves at  *)
(* most MaxOpenDraws draws open to every outcome and takes the first outcome   *)
(* in all the others.                                                          *)

\* the outcomes explored for a draw whose outcomes are `all` and whose first
\* outcome is `first`, when `left` open draws remain
Draw(all, first, left) == IF left > 0 THEN all ELSE {first}

\* what a draw with outcome `o` costs of the open draws
Cost(o, first) == IF o = first THEN 0 ELSE 1

---------------------------------------------------------------------------
(* random_algorithm *)

RECURSIVE PermSeqs(_)
\* every arrangement of the positions in S, as a set of sequences
PermSeqs(S) ==
    IF S = {} THEN {<<>>}
    ELSE UNION {{<<i>> \o rest : rest \in PermSeqs(S \ {i})} : i \in S}

\* the arrangements random.shuffle can leave a copy of cs in
Shuffles(cs) == {[i \in 1..Len(cs) |-> cs[q[i]]] : q \in PermSeqs(1..Len(cs))}

\* first outcome of random.shuffle: the order of the input
FirstShuffle(cs) == cs

\* the lists random_algorithm(cities) returns when `left` open draws remain
random_algorithm(cs, left) == Draw(Shuffles(cs), FirstShuffle(cs), left)

---------------------------------------------------------------------------
(* swap_mutation *)

\* random.random() is in [0, 1): the values k / ProbScale for k < ProbScale
RandomValues == 0..(ProbScale - 1)

\* first outcome of random.random(): the largest value
FirstRandom == ProbScale - 1

\* mutation probabilities 0, 1 / ProbScale, .., 1
Probabilities == 0..ProbScale

\* random.sample(range(n), 2): two distinct positions, in either order
SamplePairs(n) == {ij \in (1..n) \X (1..n) : ij[1] # ij[2]}

\* first outcome of random.sample(range(n), 2)
FirstPair == <<1, 2>>

\* `random.random() < mutation_probability`
MutationFires(r, p) == r < p

\* random.sample(range(len(route)), 2) raises ValueError below two positions
SwapRaises(route, r, p) == MutationFires(r, p) /\ Len(route) < 2

\* a swap without the simultaneous assignment: the second position keeps its city
swapOverwrites(route, r, p, idx) ==
    IF MutationFires(r, p)
    THEN [route EXCEPT ![idx[1]] = route[idx[2]]]
    ELSE route

\* the route swap_mutation returns, given the value r of random.random() and
\* the positions idx = <<idx1, idx2>> drawn by random.sample
swap_mutation(route, r, p, idx) ==
    IF MutationFires(r, p)
    THEN [route EXCEPT ![idx[1]] = route[idx[2]], ![idx[2]] = route[idx[1]]]
    ELSE route

---------------------------------------------------------------------------
(* crossover step of create_new_epoch *)

\* one-point crossover that takes the rest of parent2 as it is
crossoverTail(parent1, parent2) ==
    LET split_point == Len(parent1) \div 2
    IN  SubSeq(parent1, 1, split_point) \o SubSeq(parent2, split_point + 1, Len(parent2))

crossover(parent1, parent2) ==
    LET split_point == Len(parent1) \div 2
        head == SubSeq(parent1, 1, split_point)
        NotInHead(city) == city \notin Range(head)
    IN  head \o SelectSeq(parent2, NotInHead)

---------------------------------------------------------------------------
(* tournament_selection *)

RECURSIVE Samples(_, _)
\* random.sample(population, k) as the positions drawn: every sequence of k
\* distinct positions out of S
Samples(S, k) ==
    IF k = 0 THEN {<<>>}
    ELSE UNION {{<<i>> \o rest : rest \in Samples(S \ {i}, k - 1)} : i \in S}

\* first outcome of random.sample(population, k): the first k positions in order
FirstSample(k) == [i \in 1..k |-> i]

\* random.sample raises ValueError when the sample is larger than the
\* population or its size is negative
SampleRaises(n, k) == k > n \/ k < 0

\* a sample of every size the population allows, never an error
RandomSampleClamped(n, k) ==
    {[raises |-> FALSE, sample |-> q] :
        q \in Samples(1..n, IF k > n THEN n ELSE IF k < 0 THEN 0 ELSE k)}

\* the outcomes of random.sample(population, k) on n tours: the error, or the
\* positions drawn
RandomSample(n, k) ==
    IF SampleRaises(n, k) THEN {[raises |-> TRUE, sample |-> <<>>]}
    ELSE {[raises |-> FALSE, sample |-> q] : q \in Samples(1..n, k)}

RECURSIVE ScoresFrom(_, _)
ScoresFrom(tours, i) ==
    IF i > Len(tours) THEN <<>>
    ELSE <<calculate_route_length(tours[i])>> \o ScoresFrom(tours, i + 1)

\* [calculate_route_length(t) for t in tours]
Scores(tours) == ScoresFrom(tours, 1)

RECURSIVE TournamentLoop(_, _, _, _)
\* the for loop over `selected`, from position i, with the locals best (a
\* position of selected, 0 for None) and best_score
TournamentLoop(selected, i, best, score) ==
    IF i > Len(selected) THEN best
    ELSE LET curr_score == calculate_route_length(selected[i])
         IN  IF Less(curr_score, score)
             THEN TournamentLoop(selected, i + 1, i, curr_score)
             ELSE TournamentLoop(selected, i + 1, best, score)

RECURSIVE TournamentLoopLast(_, _, _, _)
\* the loop with `curr_score <= best_score`: the last of the best tours wins
TournamentLoopLast(selected, i, best, score) ==
    IF i > Len(selected) THEN best
    ELSE LET curr_score == calculate_route_length(selected[i])
         IN  IF ~Less(score, curr_score)
             THEN TournamentLoopLast(selected, i + 1, i, curr_score)
             ELSE TournamentLoopLast(selected, i + 1, best, score)

TournamentBestLast(selected) == TournamentLoopLast(selected, 1, 0, Inf)

\* the position in `selected` of the tour tournament_selection returns (0: None)
TournamentBest(selected) == TournamentLoop(selected, 1, 0, Inf)

\* calculate_route_length raises IndexError in the loop when a sampled tour is empty
TournamentRaises(selected) == \E i \in 1..Len(selected) : RouteLengthRaises(selected[i])

\* tournament_selection on the sample `selected`: None or the best tour
tournament_selection(selected) ==
    IF TournamentBest(selected) = 0 THEN None
    ELSE Some(selected[TournamentBest(selected)])

\* the tours of a population at the sampled positions, in sample order
Selected(pop, sample) == [i \in 1..Len(sample) |-> pop[sample[i]]]

\* Every tour tournament_selection(pop, k) can return, over all samples.  The
\* loop returns the first tour of the sample among those of least length, and
\* every order of every k positions is a sample, so the results are the tours
\* of least length of the k-subsets of the population (WinnersAreLoopResults
\* compares this with the loop run on every sample).
TournamentWinners(pop, k) ==
    LET score == Scores(pop)
        drawn == {S \in SUBSET (1..Len(pop)) : Cardinality(S) = k}
    IN  {pop[j] : j \in {i \in 1..Len(pop) :
            \E S \in drawn : i \in S /\ \A m \in S : score[i] <= score[m]}}

\* the tour tournament_selection returns on the first sample
FirstWinner(pop, k) == tournament_selection(Selected(pop, FirstSample(k)))[1]

---------------------------------------------------------------------------
(* run_genetic_algorithm and create_new_epoch *)

RECURSIVE SumTo(_, _)
SumTo(f, n) == IF n = 0 THEN 0 ELSE f[n] + SumTo(f, n - 1)

\* min(scores), max(scores), sum(scores) and scores.index(v) of a non-empty list
MinOf(scores) == CHOOSE v \in Range(scores) : \A w \in Range(scores) : v <= w
MaxOf(scores) == CHOOSE v \in Range(scores) : \A w \in Range(scores) : w <= v
SumOf(scores) == SumTo(scores, Len(scores))
\* the position of the last occurrence of v
IndexOfLast(scores, v) ==
    CHOOSE i \in 1..Len(scores) : scores[i] = v /\ \A j \in (i + 1)..Len(scores) : scores[j] # v

\* scores.index(v): the position of the first occurrence of v
IndexOf(scores, v) ==
    CHOOSE i \in 1..Len(scores) : scores[i] = v /\ \A j \in 1..(i - 1) : scores[j] # v

\* `if best_epoch_score <= best_score`
ImprovesOrTies(best_epoch_score, score) == ~Less(score, best_epoch_score)

\* `if best_epoch_score < best_score`
Improves(best_epoch_score, score) == Less(best_epoch_score, score)

\* the for loop `for _ in range(len(population))` ends one pass early
EpochCompleteEarly(new_pop, pop) == Len(new_pop) >= Len(pop) - 1

\* the for loop `for _ in range(len(population))` of create_new_epoch has
\* made all its passes
EpochComplete(new_pop, pop) == Len(new_pop) >= Len(pop)

\* open draws left to the run
Left == MaxOpenDraws - opened

\* the state at entry of run_genetic_algorithm(cities, initial_population_size,
\* epochs, mutation_probability)
Init ==
    /\ cities \in CityLists
    /\ initial_population_size \in PopulationSizes
    /\ epochs \in 0..MaxEpochs
    /\ mutation_probability \in Probabilities
    /\ pc = "populate"
    /\ population = <<>>
    /\ new_population = <<>>
    /\ epoch = 0
    /\ best_solution = None
    /\ best_solution_id = <<>>
    /\ best_score = Inf
    /\ best_scores_per_epoch = <<>>
    /\ avg_scores_per_epoch = <<>>
    /\ worst_scores_per_epoch = <<>>
    /\ opened = 0
    /\ call = [op |-> "run_genetic_algorithm"]
    /\ ret = Pending
    /\ profile = <<>>
    /\ feedback = <<>>
    /\ saved = <<>>
    /\ population_ids = <<>>
    /\ new_population_ids = <<>>

\* line 103: one random_algorithm(cities) of the list comprehension
Populate ==
    /\ pc = "populate"
    /\ Len(population) < initial_population_size
    /\ \E tour \in random_algorithm(cities, Left) :
          /\ population' = Append(population, tour)
          /\ population_ids' = Append(population_ids, <<0, Len(population) + 1>>)
          /\ opened' = opened + Cost(tour, FirstShuffle(cities))
    /\ UNCHANGED <<profile, feedback, saved, new_population_ids,
                   cities, initial_population_size, epochs, mutation_probability,
                   pc, new_population, epoch, best_solution, best_solution_id, best_score,
                   best_scores_per_epoch, avg_scores_per_epoch,
                   worst_scores_per_epoch, call, ret>>

\* the locals with the best solution seeded from the first tour of the
\* initial population
InitLocalsSeeded ==
    /\ pc = "populate"
    /\ Len(population) >= initial_population_size
    /\ best_solution' = IF population = <<>> THEN None ELSE Some(population[1])
    /\ best_solution_id' = IF population = <<>> THEN <<>> ELSE <<0, 1>>
    /\ best_score' = IF population = <<>> \/ RouteLengthRaises(population[1]) THEN Inf
                     ELSE calculate_route_length(population[1])
    /\ best_scores_per_epoch' = <<>>
    /\ avg_scores_per_epoch' = <<>>
    /\ worst_scores_per_epoch' = <<>>
    /\ pc' = "loop"
    /\ UNCHANGED <<profile, feedback, saved, population_ids, new_population_ids,
                   cities, initial_population_size, epochs, mutation_probability,
                   population, new_population, epoch, opened, call, ret>>

\* lines 105-109, after the list comprehension of line 103
InitLocals ==
    /\ pc = "populate"
    /\ Len(population) >= initial_population_size
    /\ best_solution' = None
    /\ best_solution_id' = <<>>
    /\ best_score' = Inf
    /\ best_scores_per_epoch' = <<>>
    /\ avg_scores_per_epoch' = <<>>
    /\ worst_scores_per_epoch' = <<>>
    /\ pc' = "loop"
    /\ UNCHANGED <<profile, feedback, saved, population_ids, new_population_ids,
                   cities, initial_population_size, epochs, mutation_probability,
                   population, new_population, epoch, opened, call, ret>>

\* create_new_epoch starting the new population with the best tour of the
\* current one (elitism)
BeginEpochElitist ==
    /\ pc = "loop"
    /\ epoch < epochs
    /\ LET kept == IF population = <<>> \/ TournamentRaises(population) THEN 0
                   ELSE IndexOf(Scores(population), MinOf(Scores(population)))
       IN  /\ new_population' = IF kept = 0 THEN <<>> ELSE <<population[kept]>>
           /\ new_population_ids' = IF kept = 0 THEN <<>> ELSE <<population_ids[kept]>>
    /\ pc' = "breed"
    /\ UNCHANGED <<profile, feedback, saved, population_ids,
                   cities, initial_population_size, epochs, mutation_probability,
                   population, epoch, best_solution, best_solution_id, best_score,
                   best_scores_per_epoch, avg_scores_per_epoch,
                   worst_scores_per_epoch, opened, call, ret>>

\* line 111 entering the loop body, line 112 calling create_new_epoch, line 76
BeginEpoch ==
    /\ pc = "loop"
    /\ epoch < epochs
    /\ new_population' = <<>>
    /\ new_population_ids' = <<>>
    /\ pc' = "breed"
    /\ UNCHANGED <<profile, feedback, saved, population_ids,
                   cities, initial_population_size, epochs, mutation_probability,
                   population, epoch, best_solution, best_solution_id, best_score,
                   best_scores_per_epoch, avg_scores_per_epoch,
                   worst_scores_per_epoch, opened, call, ret>>

\* The passes of the for loop of create_new_epoch (lines 77-86) from the
\* current state: the set of <<parent1, parent2, r, idx, opened'>> of the
\* tours the two tournaments return, the value of random.random(), the
\* positions random.sample draws in swap_mutation (FirstPair when it draws
\* none) and the open draws used.  Empty when a tournament raises.
Passes ==
    IF SampleRaises(Len(population), DefaultTournamentSize) \/ TournamentRaises(population)
    THEN {}
    ELSE
    LET first == FirstWinner(population, DefaultTournamentSize)
        winners(left) ==
            Draw(IF left > 0 THEN TournamentWinners(population, DefaultTournamentSize)
                 ELSE {first}, first, left)
        pairs(child, left) == Draw(SamplePairs(Len(child)), FirstPair, left)
    IN  UNION {UNION {UNION {
            LET left3 == Left - Cost(parent1, first) - Cost(parent2, first)
                                 - Cost(r, FirstRandom)
                child == crossover(parent1, parent2)
            IN  IF ~MutationFires(r, mutation_probability)
                  THEN {<<parent1, parent2, r, FirstPair, MaxOpenDraws - left3>>}
                ELSE IF SwapRaises(child, r, mutation_probability)
                  THEN {<<parent1, parent2, r, <<0, 0>>, MaxOpenDraws - left3>>}
                ELSE {<<parent1, parent2, r, idx, MaxOpenDraws - left3 + Cost(idx, FirstPair)>> :
                        idx \in pairs(child, left3)}
            : r \in Draw(RandomValues, FirstRandom,
                         Left - Cost(parent1, first) - Cost(parent2, first))}
            : parent2 \in winners(Left - Cost(parent1, first))}
            : parent1 \in winners(Left)}

\* `child` is parent1 itself, changed in place
ChildIdOfParent(parent1_id, pass_id) == parent1_id

\* line 82: the list object `child` refers to.  The concatenation of the
\* slice parent1[:split_point] and the list comprehension over parent2 builds
\* a new list in each pass (pass_id), whichever list parent1 is.
ChildId(parent1_id, pass_id) == pass_id

\* the tours referred to by `ids` once the list object o holds the tour v:
\* lines 71-72 change the list in place, and every reference to it sees the
\* change
Written(tours, ids, o, v) == [i \in 1..Len(tours) |-> IF ids[i] = o THEN v ELSE tours[i]]

\* the positions of `population` whose list tournament_selection can return
\* when it returns the tour `best` (line 98 returns the list of the
\* population itself; of equal tours any can be first in the sample)
WinnerPositions(pop, best) == {i \in 1..Len(pop) : pop[i] = best}

\* a pass of the for loop of create_new_epoch that appends a child
BreedChild ==
    /\ pc = "breed"
    /\ ~EpochComplete(new_population, population)
    /\ \E pass \in Passes :
       \E i \in WinnerPositions(population, pass[1]) :
          LET child == crossover(pass[1], pass[2])
              o == ChildId(population_ids[i], <<epoch + 1, Len(new_population) + 1>>)
              mutated_child == swap_mutation(child, pass[3], mutation_probability, pass[4])
          IN  /\ ~SwapRaises(child, pass[3], mutation_probability)
              /\ population' = Written(population, population_ids, o, mutated_child)
              /\ new_population' =
                    Append(Written(new_population, new_population_ids, o, mutated_child),
                           mutated_child)
              /\ new_population_ids' = Append(new_population_ids, o)
              /\ best_solution' = IF best_solution_id = o THEN Some(mutated_child)
                                  ELSE best_solution
              /\ opened' = pass[5]
    /\ UNCHANGED <<profile, feedback, saved, population_ids,
                   cities, initial_population_size, epochs, mutation_probability,
                   pc, epoch, best_solution_id, best_score,
                   best_scores_per_epoch, avg_scores_per_epoch,
                   worst_scores_per_epoch, call, ret>>

\* the exceptions a pass of the for loop of create_new_epoch can end with:
\* random.sample in tournament_selection (line 91), calculate_route_length
\* in its loop (lines 95, 64), random.sample in swap_mutation (line 70)
BreedExceptions ==
    IF SampleRaises(Len(population), DefaultTournamentSize) THEN {"ValueError"}
    ELSE IF TournamentRaises(population) THEN {"IndexError"}
    ELSE IF \E pass \in Passes :
               SwapRaises(crossover(pass[1], pass[2]), pass[3], mutation_probability)
    THEN {"ValueError"}
    ELSE {}

\* a pass of the for loop of create_new_epoch that raises: the exception leaves
\* create_new_epoch and run_genetic_algorithm, which returns nothing
BreedRaises ==
    /\ pc = "breed"
    /\ ~EpochComplete(new_population, population)
    /\ \E exception \in BreedExceptions : ret' = Raised(exception, <<>>)
    /\ pc' = "raised"
    /\ UNCHANGED <<profile, feedback, saved, population_ids, new_population_ids,
                   cities, initial_population_size, epochs, mutation_probability,
                   population, new_population, epoch, best_solution, best_solution_id, best_score,
                   best_scores_per_epoch, avg_scores_per_epoch,
                   worst_scores_per_epoch, opened, call>>

\* line 87 returning new_population, then lines 112-125 on a population that
\* has a best score
EvaluateEpoch ==
    /\ pc = "breed"
    /\ EpochComplete(new_population, population)
    /\ new_population # <<>>
    /\ \A i \in 1..Len(new_population) : ~RouteLengthRaises(new_population[i])
    /\ LET scores == Scores(new_population)
           best_epoch_score == MinOf(scores)
           avg_epoch_score == <<SumOf(scores), Len(scores)>>
           worst_epoch_score == MaxOf(scores)
       IN  /\ population' = new_population
           /\ population_ids' = new_population_ids
           /\ best_score' = IF Improves(best_epoch_score, best_score)
                            THEN best_epoch_score ELSE best_score
           /\ best_solution' = IF Improves(best_epoch_score, best_score)
                               THEN Some(new_population[IndexOf(scores, best_epoch_score)])
                               ELSE best_solution
           /\ best_solution_id' = IF Improves(best_epoch_score, best_score)
                                  THEN new_population_ids[IndexOf(scores, best_epoch_score)]
                                  ELSE best_solution_id
           /\ best_scores_per_epoch' = Append(best_scores_per_epoch, best_epoch_score)
           /\ avg_scores_per_epoch' = Append(avg_scores_per_epoch, avg_epoch_score)
           /\ worst_scores_per_epoch' = Append(worst_scores_per_epoch, worst_epoch_score)
    /\ epoch' = epoch + 1
    /\ pc' = "loop"
    /\ UNCHANGED <<profile, feedback, saved, new_population_ids,
                   cities, initial_population_size, epochs, mutation_probability,
                   new_population, opened, call, ret>>

\* line 87 returning new_population, then lines 112-115 on a population
\* without a best score: calculate_route_length raises IndexError on an empty
\* tour (line 114), min raises ValueError on no scores (line 115)
EvaluateRaises ==
    /\ pc = "breed"
    /\ EpochComplete(new_population, population)
    /\ \/ new_population = <<>>
       \/ \E i \in 1..Len(new_population) : RouteLengthRaises(new_population[i])
    /\ population' = new_population
    /\ population_ids' = new_population_ids
    /\ ret' = Raised(IF new_population = <<>> THEN "ValueError" ELSE "IndexError", <<>>)
    /\ pc' = "raised"
    /\ UNCHANGED <<profile, feedback, saved, new_population_ids,
                   cities, initial_population_size, epochs, mutation_probability,
                   new_population, epoch, best_solution, best_solution_id, best_score,
                   best_scores_per_epoch, avg_scores_per_epoch,
                   worst_scores_per_epoch, opened, call>>

\* line 111 leaving the loop, line 127
Return ==
    /\ pc = "loop"
    /\ epoch >= epochs
    /\ ret' = Returned(<<best_solution, best_score, best_scores_per_epoch,
                         avg_scores_per_epoch, worst_scores_per_epoch>>, <<>>)
    /\ pc' = "done"
    /\ UNCHANGED <<profile, feedback, saved, population_ids, new_population_ids,
                   cities, initial_population_size, epochs, mutation_probability,
                   population, new_population, epoch, best_solution, best_solution_id, best_score,
                   best_scores_per_epoch, avg_scores_per_epoch,
                   worst_scores_per_epoch, opened, call>>

Next ==
    \/ Populate
    \/ InitLocals
    \/ BeginEpoch
    \/ BreedChild
    \/ BreedRaises
    \/ EvaluateEpoch
    \/ EvaluateRaises
    \/ Return

Spec == Init /\ [][Next]_vars

---------------------------------------------------------------------------
(* Direct calls of crossover, swap_mutation, tournament_selection,         *)
(* greedy_algorithm and calculate_route_length                             *)

\* largest population handed to a direct call of tournament_selection
MaxTournamentPop == 3

\* the list in reverse order
Reversed(cs) == [i \in 1..Len(cs) |-> cs[Len(cs) + 1 - i]]

\* tours of the populations handed to tournament_selection: the empty tour,
\* and tours of MaxCities cities among which two have the same length
TournamentTours ==
    {<<>>, DistinctCities(MaxCities), Reversed(DistinctCities(MaxCities)),
     ExchangedCities(MaxCities), RepeatedCities(MaxCities)}

RECURSIVE SeqsUpTo(_, _)
\* the sequences over S of length at most n
SeqsUpTo(S, n) ==
    IF n = 0 THEN {<<>>}
    ELSE LET shorter == SeqsUpTo(S, n - 1)
         IN  shorter \cup {Append(q, x) : q \in {t \in shorter : Len(t) = n - 1}, x \in S}

\* the calls explored: the name of the function and its arguments
CrossoverCalls ==
    {[op |-> "crossover", parent1 |-> a, parent2 |-> b] :
        a \in UNION {Shuffles(cs) : cs \in CityLists},
        b \in UNION {Shuffles(cs) : cs \in CityLists}}
SwapCalls ==
    {[op |-> "swap_mutation", route |-> route, mutation_probability |-> p] :
        route \in CityLists, p \in Probabilities}
TournamentCalls ==
    {[op |-> "tournament_selection", population |-> pop, tournament_size |-> k] :
        pop \in SeqsUpTo(TournamentTours, MaxTournamentPop),
        k \in (0..(MaxTournamentPop + 1)) \cup {DefaultTournamentSize}}

\* the corners of the unit square, up, right and down from (0, 0)
UnitSquare == <<<<1, 0, 0>>, <<2, 0, 1>>, <<3, 1, 1>>, <<4, 1, 0>>>>

\* three cities of which two distances are not integers
SlantedCities == <<<<1, 0, 0>>, <<2, 0, 1>>, <<3, 3, 2>>>>

\* the cyclic rotations of a tour other than the tour itself
Rotations(route) ==
    {SubSeq(route, k + 1, Len(route)) \o SubSeq(route, 1, k) : k \in 1..(Len(route) - 1)}

GreedyCalls ==
    {[op |-> "greedy_algorithm", cities |-> cs, start |-> start] :
        cs \in CityLists \cup Shuffles(UnitSquare) \cup Shuffles(SlantedCities),
        start \in (-(MaxCities + 1))..MaxCities}

\* calculate_route_length called on a tour and then on a rotation of it or
\* on its reversal
RouteLengthCalls ==
    {[op |-> "calculate_route_length", route |-> c[1], other |-> c[2]] :
        c \in UNION {{<<route, other>> : other \in Rotations(route) \cup {Reversed(route)}} :
                        route \in CityLists \cup Shuffles(UnitSquare)
                                           \cup Shuffles(SlantedCities)}}

\* before one call of one of the functions
InitOps ==
    /\ call \in CrossoverCalls \cup SwapCalls \cup TournamentCalls
                  \cup GreedyCalls \cup RouteLengthCalls
    /\ ret = Pending
    /\ pc = "call"
    /\ cities = <<>>
    /\ initial_population_size = 0
    /\ epochs = 0
    /\ mutation_probability = 0
    /\ population = <<>>
    /\ new_population = <<>>
    /\ epoch = 0
    /\ best_solution = None
    /\ best_solution_id = <<>>
    /\ best_score = Inf
    /\ best_scores_per_epoch = <<>>
    /\ avg_scores_per_epoch = <<>>
    /\ worst_scores_per_epoch = <<>>
    /\ opened = 0
    /\ profile = <<>>
    /\ feedback = <<>>
    /\ saved = <<>>
    /\ population_ids = <<>>
    /\ new_population_ids = <<>>

\* line 81-82 on the two parents
CallCrossover ==
    /\ pc = "call"
    /\ call.op = "crossover"
    /\ ret' = Returned(crossover(call.parent1, call.parent2), <<>>)
    /\ pc' = "done"
    /\ UNCHANGED <<profile, feedback, saved, population_ids, new_population_ids,
                   cities, initial_population_size, epochs, mutation_probability,
                   population, new_population, epoch, best_solution, best_solution_id, best_score,
                   best_scores_per_epoch, avg_scores_per_epoch,
                   worst_scores_per_epoch, opened, call>>

\* swap_mutation(route, mutation_probability), lines 68-72; draw records the
\* value of random.random() and the positions random.sample returned
CallSwapMutation ==
    /\ pc = "call"
    /\ call.op = "swap_mutation"
    /\ \E r \in RandomValues :
          IF SwapRaises(call.route, r, call.mutation_probability)
          THEN ret' = Raised("ValueError", <<r>>) /\ pc' = "raised"
          ELSE \E idx \in IF MutationFires(r, call.mutation_probability)
                          THEN SamplePairs(Len(call.route)) ELSE {<<>>} :
                  /\ ret' = Returned(swap_mutation(call.route, r,
                                                   call.mutation_probability, idx),
                                     <<r, idx>>)
                  /\ pc' = "done"
    /\ UNCHANGED <<profile, feedback, saved, population_ids, new_population_ids,
                   cities, initial_population_size, epochs, mutation_probability,
                   population, new_population, epoch, best_solution, best_solution_id, best_score,
                   best_scores_per_epoch, avg_scores_per_epoch,
                   worst_scores_per_epoch, opened, call>>

\* tournament_selection(population, tournament_size), lines 90-99; draw
\* records the positions random.sample returned
CallTournament ==
    /\ pc = "call"
    /\ call.op = "tournament_selection"
    /\ \E drawn \in RandomSample(Len(call.population), call.tournament_size) :
          LET selected == Selected(call.population, drawn.sample)
          IN  IF drawn.raises
                THEN ret' = Raised("ValueError", <<>>) /\ pc' = "raised"
              ELSE IF TournamentRaises(selected)
                THEN ret' = Raised("IndexError", drawn.sample) /\ pc' = "raised"
              ELSE ret' = Returned(tournament_selection(selected), drawn.sample)
                   /\ pc' = "done"
    /\ UNCHANGED <<profile, feedback, saved, population_ids, new_population_ids,
                   cities, initial_population_size, epochs, mutation_probability,
                   population, new_population, epoch, best_solution, best_solution_id, best_score,
                   best_scores_per_epoch, avg_scores_per_epoch,
                   worst_scores_per_epoch, opened, call>>

\* greedy_algorithm(cities, start), lines 34-51
CallGreedy ==
    /\ pc = "call"
    /\ call.op = "greedy_algorithm"
    /\ IF PopRaises(Len(call.cities), call.start)
       THEN ret' = Raised("IndexError", <<>>) /\ pc' = "raised"
       ELSE ret' = Returned(greedy_algorithm(call.cities, call.start), <<>>) /\ pc' = "done"
    /\ UNCHANGED <<profile, feedback, saved, population_ids, new_population_ids,
                   cities, initial_population_size, epochs, mutation_probability,
                   population, new_population, epoch, best_solution, best_solution_id, best_score,
                   best_scores_per_epoch, avg_scores_per_epoch,
                   worst_scores_per_epoch, opened, call>>

\* calculate_route_length(route), then calculate_route_length(other),
\* lines 60-65; the value is the pair of the two lengths
CallRouteLength ==
    /\ pc = "call"
    /\ call.op = "calculate_route_length"
    /\ IF RouteLengthRaises(call.route)
       THEN ret' = Raised("IndexError", <<>>) /\ pc' = "raised"
       ELSE ret' = Returned(<<calculate_route_length_float(call.route),
                              calculate_route_length_float(call.other)>>, <<>>)
            /\ pc' = "done"
    /\ UNCHANGED <<profile, feedback, saved, population_ids, new_population_ids,
                   cities, initial_population_size, epochs, mutation_probability,
                   population, new_population, epoch, best_solution, best_solution_id, best_score,
                   best_scores_per_epoch, avg_scores_per_epoch,
                   worst_scores_per_epoch, opened, call>>

NextOps ==
    \/ CallCrossover
    \/ CallSwapMutation
    \/ CallTournament
    \/ CallGreedy
    \/ CallRouteLength

SpecOps == InitOps /\ [][NextOps]_vars

---------------------------------------------------------------------------
(* RecipeRecommenderApp.handle_feedback of "Smart Recipe Recommender.py"   *)

\* largest likes / dislikes counter in user_feedback.json at start
MaxCount == 1
\* writes of a file that fail, at most, in one run of the application
MaxFailedSaves == 1

\* the variables of the genetic algorithm
gaVars == <<cities, initial_population_size, epochs, mutation_probability,
            population, new_population, epoch, best_solution, best_solution_id,
            best_score, best_scores_per_epoch, avg_scores_per_epoch,
            worst_scores_per_epoch, opened, population_ids, new_population_ids>>

\* the recipes of recipes.json: each has a name and ingredients (line 82
\* reads them of every recipe), and a cuisine or none (<<>>); two recipes
\* have the same name
Recipes ==
    {[name |-> "Omelette", ingredients |-> <<"Egg">>, cuisine |-> <<"Thai">>],
     [name |-> "Fried Rice", ingredients |-> <<"egg", "Rice">>, cuisine |-> <<"thai">>],
     [name |-> "Omelette", ingredients |-> <<"Rice">>, cuisine |-> <<>>]}

RecipeNames == {recipe.name : recipe \in Recipes}

\* str.lower() on the strings of the recipes
Lower(str) ==
    CASE str = "Egg" -> "egg"
      [] str = "Rice" -> "rice"
      [] str = "Thai" -> "thai"
      [] OTHER -> str

\* [i.lower() for i in list]
Lowered(list) == {Lower(list[i]) : i \in 1..Len(list)}

\* the lists of names without repeats
NameLists == {names \in SeqsUpTo(RecipeNames, Cardinality(RecipeNames)) :
                \A i, j \in 1..Len(names) : names[i] = names[j] => i = j}

\* the profiles of user_profile.json in which no name is in both lists and
\* neither list has a name twice
Profiles ==
    {[liked_recipes |-> lists[1], disliked_recipes |-> lists[2],
      favorite_ingredients |-> <<>>, preferred_cuisines |-> <<>>] :
        lists \in {l \in NameLists \X NameLists : Range(l[1]) \cap Range(l[2]) = {}}}

\* the feedback records of user_feedback.json: counters the program wrote
Feedbacks ==
    UNION {[known -> [likes : 0..MaxCount, dislikes : 0..MaxCount]] :
             known \in SUBSET RecipeNames}

\* lines 563-564
WithEntry(fb, recipe_name) ==
    IF recipe_name \in DOMAIN fb THEN fb
    ELSE [n \in DOMAIN fb \cup {recipe_name} |->
            IF n = recipe_name THEN [likes |-> 0, dislikes |-> 0] ELSE fb[n]]

\* count - 1
DecrementedUnclamped(count) == count - 1

\* max(0, count - 1), lines 569 and 586
Decremented(count) == IF count - 1 > 0 THEN count - 1 ELSE 0

\* list.remove(recipe_name) where the name is in the list
Removed(list, recipe_name) == RemoveFirst(list, recipe_name)

RECURSIVE AddIngredients(_, _, _)
\* lines 575-577: the for loop over recipe['ingredients'] from position i on
AddIngredients(favorite_ingredients, ingredients, i) ==
    IF i > Len(ingredients) THEN favorite_ingredients
    ELSE AddIngredients(IF Lower(ingredients[i]) \notin Lowered(favorite_ingredients)
                        THEN Append(favorite_ingredients, ingredients[i])
                        ELSE favorite_ingredients,
                        ingredients, i + 1)

\* lines 579-582
AddCuisine(preferred_cuisines, cuisine) ==
    IF cuisine # <<>> /\ Lower(cuisine[1]) \notin Lowered(preferred_cuisines)
    THEN Append(preferred_cuisines, cuisine[1])
    ELSE preferred_cuisines

\* lines 566-582: the profile and the feedback after a 'like'
Like(pr, fb, recipe) ==
    LET recipe_name == recipe.name
        was_disliked == recipe_name \in Range(pr.disliked_recipes)
        disliked == IF was_disliked THEN Removed(pr.disliked_recipes, recipe_name)
                    ELSE pr.disliked_recipes
        fb1 == IF was_disliked
               THEN [fb EXCEPT ![recipe_name].dislikes = Decremented(@)]
               ELSE fb
        is_new == recipe_name \notin Range(pr.liked_recipes)
    IN  IF is_new
        THEN <<[liked_recipes |-> Append(pr.liked_recipes, recipe_name),
                disliked_recipes |-> disliked,
                favorite_ingredients |->
                    AddIngredients(pr.favorite_ingredients, recipe.ingredients, 1),
                preferred_cuisines |-> AddCuisine(pr.preferred_cuisines, recipe.cuisine)],
               [fb1 EXCEPT ![recipe_name].likes = @ + 1]>>
        ELSE <<[pr EXCEPT !.disliked_recipes = disliked], fb1>>

\* lines 583-590: the profile and the feedback after any other feedback
Dislike(pr, fb, recipe) ==
    LET recipe_name == recipe.name
        was_liked == recipe_name \in Range(pr.liked_recipes)
        liked == IF was_liked THEN Removed(pr.liked_recipes, recipe_name)
                 ELSE pr.liked_recipes
        fb1 == IF was_liked
               THEN [fb EXCEPT ![recipe_name].likes = Decremented(@)]
               ELSE fb
        is_new == recipe_name \notin Range(pr.disliked_recipes)
    IN  IF is_new
        THEN <<[pr EXCEPT !.liked_recipes = liked,
                          !.disliked_recipes = Append(pr.disliked_recipes, recipe_name)],
               [fb1 EXCEPT ![recipe_name].dislikes = @ + 1]>>
        ELSE <<[pr EXCEPT !.liked_recipes = liked], fb1>>

\* the application after load_all_data (lines 46-57): the profile and the
\* feedback are what the two files hold
InitFeedback ==
    /\ profile \in Profiles
    /\ feedback \in Feedbacks
    /\ saved = [feedback |-> feedback, profile |-> profile, failed |-> 0]
    /\ pc = "idle"
    /\ call = [op |-> "load_all_data"]
    /\ ret = Pending
    /\ cities = <<>>
    /\ initial_population_size = 0
    /\ epochs = 0
    /\ mutation_probability = 0
    /\ population = <<>>
    /\ new_population = <<>>
    /\ epoch = 0
    /\ best_solution = None
    /\ best_solution_id = <<>>
    /\ best_score = Inf
    /\ best_scores_per_epoch = <<>>
    /\ avg_scores_per_epoch = <<>>
    /\ worst_scores_per_epoch = <<>>
    /\ opened = 0
    /\ population_ids = <<>>
    /\ new_population_ids = <<>>

\* the outcomes of the two save_json_file calls of save_all_data: each file
\* is written (TRUE) or the write fails (lines 74-76)
SaveOutcomes(failed) ==
    {w \in BOOLEAN \X BOOLEAN :
        failed + (IF w[1] THEN 0 ELSE 1) + (IF w[2] THEN 0 ELSE 1) <= MaxFailedSaves}

\* handle_feedback(recipe, feedback_type, window), lines 559-593, with
\* save_all_data (lines 595-598): each of the two files is written, or stays
\* as it was when save_json_file fails; saved.failed counts the failed
\* writes.  update_feedback_buttons changes the window only.
HandleFeedback ==
    /\ pc = "idle"
    /\ \E recipe \in Recipes, feedback_type \in {"like", "dislike"},
          written \in SaveOutcomes(saved.failed) :
          LET after == IF feedback_type = "like"
                       THEN Like(profile, WithEntry(feedback, recipe.name), recipe)
                       ELSE Dislike(profile, WithEntry(feedback, recipe.name), recipe)
          IN  /\ profile' = after[1]
              /\ feedback' = after[2]
              /\ saved' = [feedback |-> IF written[1] THEN after[2] ELSE saved.feedback,
                           profile |-> IF written[2] THEN after[1] ELSE saved.profile,
                           failed |-> saved.failed + (IF written[1] THEN 0 ELSE 1)
                                        + (IF written[2] THEN 0 ELSE 1)]
              /\ call' = [op |-> "handle_feedback", recipe |-> recipe,
                          feedback_type |-> feedback_type]
              /\ ret' = Returned(<<>>, <<>>)
    /\ UNCHANGED <<pc, gaVars>>

NextFeedback ==
    \/ HandleFeedback

SpecFeedback == InitFeedback /\ [][NextFeedback]_vars

---------------------------------------------------------------------------
(* Properties *)

\* number of times city c occurs in s
Count(c, s) == Cardinality({i \in 1..Len(s) : s[i] = c})

\* tour holds exactly the cities of cs, each as often as cs does
SameMultiset(tour, cs) ==
    /\ Len(tour) = Len(cs)
    /\ \A c \in Range(cs) \cup Range(tour) : Count(c, tour) = Count(c, cs)

NoRepeats(s) == \A i, j \in 1..Len(s) : s[i] = s[j] => i = j

\* the position of c in a sequence without repeats
Pos(s, c) == CHOOSE i \in 1..Len(s) : s[i] = c

\* C1: in run_genetic_algorithm on a non-empty city list, every tour of the
\* initial population and of the population after every generation (and every
\* child appended so far by create_new_epoch) holds the same multiset of
\* cities as the input.
C1_ToursKeepCities ==
    cities # <<>> =>
        /\ \A i \in 1..Len(population) : SameMultiset(population[i], cities)
        /\ \A i \in 1..Len(new_population) : SameMultiset(new_population[i], cities)

\* C1, on the inputs where it holds: when no record occurs twice in the city
\* list, every tour is a permutation of the input.
C1_DistinctCitiesKept ==
    (cities # <<>> /\ NoRepeats(cities)) =>
        /\ \A i \in 1..Len(population) : SameMultiset(population[i], cities)
        /\ \A i \in 1..Len(new_population) : SameMultiset(new_population[i], cities)

\* C2: for parents that are permutations of the same city set, with
\* k = len(parent1) // 2, the child of the crossover step is the first k
\* cities of parent1 in order, then every city of parent2 that is not among
\* them, in parent2's order; the child is a permutation of the city set.
C2_Crossover ==
    (/\ call.op = "crossover"
     /\ ret.status = "returned"
     /\ NoRepeats(call.parent1)
     /\ NoRepeats(call.parent2)
     /\ Range(call.parent1) = Range(call.parent2)) =>
        LET a == call.parent1
            b == call.parent2
            k == Len(a) \div 2
            child == ret.value
            head == {a[i] : i \in 1..k}
        IN  /\ Len(child) = Len(a)
            /\ \A i \in 1..k : child[i] = a[i]
            /\ {child[i] : i \in (k + 1)..Len(child)} = Range(b) \ head
            /\ \A i, j \in (k + 1)..Len(child) : i < j => Pos(b, child[i]) < Pos(b, child[j])
            /\ NoRepeats(child)
            /\ Range(child) = Range(a)

\* C2 witness: a crossover of two different permutations of four or more
\* cities whose child is neither parent.
C2_Witness ==
    /\ call.op = "crossover"
    /\ ret.status = "returned"
    /\ NoRepeats(call.parent1)
    /\ NoRepeats(call.parent2)
    /\ Range(call.parent1) = Range(call.parent2)
    /\ Len(call.parent1) >= 4
    /\ ret.value # call.parent1
    /\ ret.value # call.parent2

\* the claim of C3 about the sample ret.draw of a finished call: a tour is
\* returned, it is the tour at a position j of the sample, no sampled tour is
\* shorter, and every sampled tour before j is longer
ReturnsFirstShortest ==
    LET selected == Selected(call.population, ret.draw)
    IN  /\ ret.status = "returned"
        /\ \E j \in 1..Len(selected) :
              /\ ret.value = Some(selected[j])
              /\ \A m \in 1..Len(selected) :
                    calculate_route_length(selected[j]) <= calculate_route_length(selected[m])
              /\ \A m \in 1..(j - 1) :
                    calculate_route_length(selected[j]) < calculate_route_length(selected[m])

\* C3 as stated: whenever tournament_size does not exceed the population
\* size, tournament_selection returns a tour of the sample, of least route
\* length in the sample, the first such tour in sample order.
C3_Original ==
    (/\ call.op = "tournament_selection"
     /\ pc # "call"
     /\ call.tournament_size <= Len(call.population)) => ReturnsFirstShortest

\* C3 amended: whenever tournament_size is at least 1 and does not exceed the
\* population size and no sampled tour is empty, tournament_selection returns
\* a tour of the sample, of least route length in the sample, the first such
\* tour in sample order.
C3_Tournament ==
    (/\ call.op = "tournament_selection"
     /\ pc # "call"
     /\ call.tournament_size >= 1
     /\ call.tournament_size <= Len(call.population)
     /\ \A i \in 1..Len(ret.draw) : call.population[ret.draw[i]] # <<>>) =>
        ReturnsFirstShortest

\* C3 witness: a sample with two different tours of the same least length,
\* the earlier of which is returned.
C3_Witness ==
    /\ call.op = "tournament_selection"
    /\ ret.status = "returned"
    /\ LET selected == Selected(call.population, ret.draw)
       IN  \E i, j \in 1..Len(selected) :
              /\ i < j
              /\ selected[i] # selected[j]
              /\ calculate_route_length(selected[i]) = calculate_route_length(selected[j])
              /\ \A m \in 1..Len(selected) :
                    calculate_route_length(selected[i]) <= calculate_route_length(selected[m])
              /\ ret.value = Some(selected[i])

\* The tours TournamentWinners gives are the results of the loop of
\* tournament_selection over all samples.
WinnersAreLoopResults ==
    (/\ call.op = "tournament_selection"
     /\ call.tournament_size >= 1
     /\ call.tournament_size <= Len(call.population)
     /\ \A i \in 1..Len(call.population) : call.population[i] # <<>>) =>
        TournamentWinners(call.population, call.tournament_size)
            = {tournament_selection(Selected(call.population, q))[1] :
                 q \in Samples(1..Len(call.population), call.tournament_size)}

C5_BestScoreMonotone ==
    [][/\ best_score' = best_score \/ Less(best_score', best_score)
       /\ (best_score' # best_score \/ best_solution' # best_solution) =>
             /\ pc = "breed"
             /\ pc' = "loop"
             /\ Len(best_scores_per_epoch') = Len(best_scores_per_epoch) + 1
             /\ Less(best_scores_per_epoch'[Len(best_scores_per_epoch')], best_score)
             /\ best_score' = best_scores_per_epoch'[Len(best_scores_per_epoch')]
             /\ best_solution' # None
             /\ calculate_route_length(best_solution'[1]) = best_score']_vars

\* C5 witness: the second generation's best score is strictly smaller than
\* the first's and has replaced the tracked best score.
C5_Witness ==
    /\ Len(best_scores_per_epoch) = 2
    /\ best_scores_per_epoch[2] < best_scores_per_epoch[1]
    /\ best_score = best_scores_per_epoch[2]

\* C6: tournament_selection raises, and returns no tour, whenever
\* tournament_size exceeds the number of tours in the population.
C6_TournamentTooLarge ==
    (/\ call.op = "tournament_selection"
     /\ pc # "call"
     /\ call.tournament_size > Len(call.population)) =>
        (ret.status = "raised" /\ ret.value = "ValueError")

\* C6 witness: a call on a non-empty population of fewer tours than the
\* tournament size has raised.
C6_Witness ==
    /\ call.op = "tournament_selection"
    /\ call.population # <<>>
    /\ call.tournament_size > Len(call.population)
    /\ ret.status = "raised"

\* C7: a run with a population of one tour and one generation on a non-empty
\* city list ends without an error, with a population of one tour that is a
\* permutation of the input and, with mutation probability 0, is the parent.
C7_SingleTour ==
    (cities # <<>> /\ initial_population_size = 1 /\ epochs = 1) =>
        /\ pc # "raised"
        /\ pc = "done" =>
              /\ Len(population) = 1
              /\ SameMultiset(population[1], cities)

\* C8: with epochs = 0 no generation runs, nothing raises, and the call
\* returns (None, inf, [], [], []).
C8_NoEpochs ==
    epochs = 0 =>
        /\ pc \in {"populate", "loop", "done"}
        /\ epoch = 0
        /\ pc = "loop" => (ENABLED Return /\ ~ENABLED BeginEpoch)
        /\ pc = "done" => ret = Returned(<<None, Inf, <<>>, <<>>, <<>>>>, <<>>)

\* C8 witness: a call with epochs = 0 on a non-empty population of non-empty
\* tours has returned.
C8_Witness ==
    /\ epochs = 0
    /\ pc = "done"
    /\ ret.status = "returned"
    /\ cities # <<>>
    /\ population # <<>>

\* C9: on a city list of two or more cities and a population of at least the
\* tournament size, the run raises nothing and returns after exactly `epochs`
\* generations three sequences of length `epochs`, the best of each
\* generation at most its worst.
C9_Terminates ==
    (Len(cities) >= 2 /\ initial_population_size >= DefaultTournamentSize) =>
        /\ pc # "raised"
        /\ pc = "done" =>
              /\ epoch = epochs
              /\ Len(ret.value[3]) = epochs
              /\ Len(ret.value[4]) = epochs
              /\ Len(ret.value[5]) = epochs
              /\ \A g \in 1..epochs : ret.value[3][g] <= ret.value[5][g]

\* C10: the population has initial_population_size tours after the initial
\* population is built and after every generation, create_new_epoch never
\* holds more children than the population has tours, and every child is the
\* crossover of two tours of the population, with or without one swap.
C10_PopulationSize ==
    /\ pc \in {"loop", "done"} => Len(population) = initial_population_size
    /\ pc = "breed" =>
          /\ Len(population) = initial_population_size
          /\ Len(new_population) <= Len(population)
          /\ \A i \in 1..Len(new_population) :
                \E parent1, parent2 \in Range(population) :
                   LET child == crossover(parent1, parent2)
                   IN  \/ new_population[i] = child
                       \/ \E idx \in SamplePairs(Len(child)) :
                             new_population[i] = swap_mutation(child, 0, 1, idx)

\* C10 witness: two generations were made and the population has as many
\* tours as a tournament draws.
C10_Witness ==
    /\ pc = "loop"
    /\ epoch = 2
    /\ Len(population) = initial_population_size
    /\ initial_population_size = DefaultTournamentSize

\* the positions of cs that `route` takes its cities from, one after the
\* other, when each city after the first is, of the positions not yet taken,
\* the first one at the least distance from the city before
NearestFirst(cs, route, first) ==
    {pos \in PermSeqs(1..Len(cs)) :
        /\ pos[1] = first
        /\ \A k \in 1..Len(cs) : route[k] = cs[pos[k]]
        /\ \A k \in 2..Len(cs) :
              \A j \in (1..Len(cs)) \ {pos[m] : m \in 1..(k - 1)} :
                 LET here == euclidean_distance_float(route[k - 1], cs[pos[k]])
                     there == euclidean_distance_float(route[k - 1], cs[j])
                 IN  here < there \/ (here = there /\ pos[k] <= j)}

\* C11: greedy_algorithm(cities, start) on a non-empty list and a valid
\* start returns a permutation of the cities that starts with cities[start]
\* and goes on, each time, with the unvisited city nearest to the last one,
\* the earliest in input order among equally near ones; on the unit square
\* from start 0 it is the perimeter order, of closed length exactly 4.
C11_Greedy ==
    (/\ pc # "call"
     /\ call.op = "greedy_algorithm"
     /\ call.cities # <<>>
     /\ ~PopRaises(Len(call.cities), call.start)) =>
        /\ ret.status = "returned"
        /\ Len(ret.value) = Len(call.cities)
        /\ SameMultiset(ret.value, call.cities)
        /\ ret.value[1] = call.cities[PopPosition(Len(call.cities), call.start)]
        /\ NearestFirst(call.cities, ret.value,
                        PopPosition(Len(call.cities), call.start)) # {}
        /\ (call.cities = UnitSquare /\ call.start = 0) =>
              /\ ret.value = UnitSquare
              /\ calculate_route_length_float(ret.value) = 4 * Unit

\* C11: greedy_algorithm has returned the route of the unit square from its
\* second corner, where two unvisited cities were equally near
C11_Witness ==
    /\ pc = "done"
    /\ call.op = "greedy_algorithm"
    /\ call.cities = UnitSquare
    /\ call.start = 1
    /\ ret.value = <<UnitSquare[2], UnitSquare[1], UnitSquare[4], UnitSquare[3]>>

\* C12 as stated: calculate_route_length gives the same value for a
\* non-empty tour and for each of its rotations and its reversal.
C12_Original ==
    (pc = "done" /\ call.op = "calculate_route_length") =>
        ret.value[1] = ret.value[2]

\* the length of every edge of the closed tour is an integer
IntegerDistances(route) ==
    \A i \in 1..Len(route) :
       LET j == (i % Len(route)) + 1
           d == (route[i][2] - route[j][2]) * (route[i][2] - route[j][2])
                  + (route[i][3] - route[j][3]) * (route[i][3] - route[j][3])
       IN  Isqrt(d) * Isqrt(d) = d

\* the greater of two floats
Larger(a, b) == IF a < b THEN b ELSE a

\* C12 as amended: for a non-empty tour of n cities, a rotation of it and its
\* reversal, calculate_route_length gives values that differ by at most
\* n - 1 units in the last place of the larger one, and the same value when
\* the length of every edge of the tour is an integer or the tour has at
\* most 2 cities.
C12_RouteLength ==
    (pc = "done" /\ call.op = "calculate_route_length") =>
        LET a == ret.value[1]
            b == ret.value[2]
        IN  /\ Larger(a, b) - (a + b - Larger(a, b))
                  <= (Len(call.route) - 1) * Ulp(Larger(a, b))
            /\ (IntegerDistances(call.route) \/ Len(call.route) <= 2) => a = b

\* C12: calculate_route_length has given two different values for a tour
\* and a rotation of it
C12_Witness ==
    /\ pc = "done"
    /\ call.op = "calculate_route_length"
    /\ call.other \in Rotations(call.route)
    /\ ret.value[1] # ret.value[2]

\* C13: run_genetic_algorithm called with an empty city list or a population
\* size of zero is rejected at entry: it builds no population, runs no
\* generation, returns no result, and raises nothing from inside selection,
\* fitness evaluation or statistics.
C13_RejectedAtEntry ==
    (cities = <<>> \/ initial_population_size = 0) =>
        /\ population = <<>>
        /\ pc \notin {"loop", "breed", "done"}
        /\ pc = "raised" => epoch = 0 /\ new_population = <<>>

\* inside create_new_epoch the list objects of the two populations are
\* pairwise different
NoSharedList ==
    pc = "breed" => NoRepeats(population_ids \o new_population_ids)

\* C14: tours are never aliased between individuals.  A pass of
\* create_new_epoch, with its in-place swap on the child, appends the child
\* and leaves every tour of the parent population, every child appended
\* before and the best solution of an earlier generation as they were; no
\* two entries of the populations refer to the same list.
C14_NoAliasing ==
    [][/\ NoSharedList'
       /\ (pc = "breed" /\ pc' = "breed") =>
             /\ population' = population
             /\ Len(new_population') = Len(new_population) + 1
             /\ SubSeq(new_population', 1, Len(new_population)) = new_population
             /\ best_solution' = best_solution]_vars

\* C14: in the second generation, where run_genetic_algorithm tracks a best
\* solution of the first, a swap has been made on each of two children
C14_Witness ==
    /\ pc = "breed"
    /\ epoch = 1
    /\ best_solution # None
    /\ mutation_probability = ProbScale
    /\ Len(cities) >= 3
    /\ Len(new_population) >= 2

\* the tours swap_mutation can return for a child of two tours of pop
BredFrom(pop, p) ==
    UNION {LET child == crossover(pop[i], pop[j])
           IN  {child : r \in {r \in RandomValues : ~MutationFires(r, p)}}
                 \cup {swap_mutation(child, r, p, idx) :
                          r \in {r \in RandomValues : MutationFires(r, p)},
                          idx \in SamplePairs(Len(child))}
           : i \in 1..Len(pop), j \in 1..Len(pop)}

\* C15: no elitism.  Every tour of the next generation is a child bred from
\* two tours of the current one, mutated as mutation_probability has it (no
\* tour is carried over as it is), and the best score recorded for a
\* generation is the least length in that generation alone.
C15_NoElitism ==
    [][(pc = "breed" /\ pc' = "loop") =>
          /\ \A i \in 1..Len(population') :
                population'[i] \in BredFrom(population, mutation_probability)
          /\ best_scores_per_epoch'[epoch'] = MinOf(Scores(population'))]_vars

\* C15: the best score recorded for the second generation is strictly
\* greater than the one recorded for the first, whose best tour is not in
\* the second generation's population
C15_Witness ==
    /\ pc = "loop"
    /\ epoch = 2
    /\ best_scores_per_epoch[2] > best_scores_per_epoch[1]
    /\ best_solution # None
    /\ calculate_route_length(best_solution[1]) = best_scores_per_epoch[1]
    /\ best_solution[1] \notin Range(population)

\* the first tour of least length in pop
FirstShortest(pop) ==
    pop[CHOOSE i \in 1..Len(pop) :
            /\ \A j \in 1..Len(pop) :
                  calculate_route_length(pop[i]) <= calculate_route_length(pop[j])
            /\ \A j \in 1..(i - 1) :
                  calculate_route_length(pop[j]) > calculate_route_length(pop[i])]

\* C16: when run_genetic_algorithm returns after epochs >= 1, the returned
\* best_score is the minimum of best_scores_per_epoch and the returned
\* best_solution is a tour of that length; it was set to the first tour of
\* least length of the generation that first attained that score, and no
\* later generation changed it.
C16_ReturnedBest ==
    [][/\ (pc' = "done" /\ epochs >= 1) =>
             /\ ret'.status = "returned"
             /\ ret'.value[2] = MinOf(ret'.value[3])
             /\ ret'.value[1] # None
             /\ calculate_route_length(ret'.value[1][1]) = ret'.value[2]
       /\ (pc = "breed" /\ pc' = "loop") =>
             IF \A e \in 1..epoch : best_scores_per_epoch'[epoch'] < best_scores_per_epoch[e]
             THEN best_solution' = Some(FirstShortest(population'))
             ELSE best_solution' = best_solution]_vars

\* C16: a run of two generations has returned; the second generation held
\* two different tours of the least length and gave the best solution
C16_Witness ==
    /\ pc = "done"
    /\ epochs = 2
    /\ best_scores_per_epoch[2] < best_scores_per_epoch[1]
    /\ \E i, j \in 1..Len(population) :
          /\ population[i] # population[j]
          /\ calculate_route_length(population[i]) = best_score
          /\ calculate_route_length(population[j]) = best_score

\* C17: after every sequence of 'like' and 'dislike' events of
\* handle_feedback, from a profile with no name in both lists and no name
\* twice in a list: no name is in both lists, no list has a name twice, the
\* recipe of the last event is in the list of its feedback and not in the
\* other, and no likes or dislikes counter is negative.
C17_Feedback ==
    /\ Range(profile.liked_recipes) \cap Range(profile.disliked_recipes) = {}
    /\ NoRepeats(profile.liked_recipes)
    /\ NoRepeats(profile.disliked_recipes)
    /\ \A n \in DOMAIN feedback : feedback[n].likes >= 0 /\ feedback[n].dislikes >= 0
    /\ call.op = "handle_feedback" =>
          /\ call.feedback_type = "like" =>
                /\ call.recipe.name \in Range(profile.liked_recipes)
                /\ call.recipe.name \notin Range(profile.disliked_recipes)
          /\ call.feedback_type = "dislike" =>
                /\ call.recipe.name \in Range(profile.disliked_recipes)
                /\ call.recipe.name \notin Range(profile.liked_recipes)

\* C17: a recipe that was in liked_recipes (as the profile file still has
\* it) with no likes counted for it has been disliked: it has left the
\* liked list for the disliked one and its likes counter is still 0
C17_Witness ==
    /\ call.op = "handle_feedback"
    /\ call.feedback_type = "dislike"
    /\ feedback[call.recipe.name] = [likes |-> 0, dislikes |-> 1]
    /\ saved.profile.liked_recipes = <<call.recipe.name>>
    /\ profile.liked_recipes = <<>>
    /\ profile.disliked_recipes = <<call.recipe.name>>

====
